---- MODULE Spec2Model ----
(***************************************************************************)
(* Authentication and session-token lifecycle of the Doodlelarious        *)
(* backend: signup, login, refresh-token rotation, logout and the admin   *)
(* activate/deactivate switch, over the User collection.                  *)
(*                                                                         *)
(* Every route handler is split at its awaits: an action is one access of *)
(* the handler to a collection or to the clock, with the synchronous code  *)
(* around it.  The "Begin" action is the request's arrival with the first *)
(* read, the "Finish" action is the last access and the answer, and the   *)
(* actions between them are the reads, writes and resumptions the handler *)
(* awaits in between.  Requests run in the slots of Procs and interleave  *)
(* freely.                                                                 *)
(*                                                                         *)
(* save() is the Mongoose document save: an array path that was pushed to  *)
(* is written with $push and increments the version key __v; an array     *)
(* path that was assigned is written whole with $set, under the condition *)
(* that __v still has the value that was read, and increments it; a       *)
(* array element that was assigned by its index is written alone with     *)
(* $set, under the same condition, and leaves __v as it is; a document    *)
(* with no modified path writes nothing.  A failed condition raises       *)
(* VersionError, which the handlers hand to next(error).                  *)
(*                                                                         *)
(* Spec is the authentication routes with the admin switch.  SpecTtl adds *)
(* MongoDB's TTL monitor, which the schema's expires option on            *)
(* refreshTokens.createdAt sets to work on the collection.  SpecApi adds   *)
(* the profile and admin endpoints that answer with user documents.       *)
(* SpecContent is the review routes, with signup and the admin role       *)
(* switch to bring their callers about.  SpecLists is the routes that     *)
(* save the caller's own document: watchlist, favorites and watch         *)
(* history, next to refresh-token and logout.                             *)
(***************************************************************************)
EXTENDS Integers, Sequences, FiniteSets, TLC

\* ---------------------------------------------------------------- bounds
MaxUsers == 2
MaxClock == 2
MaxRequests == 3
NumProcs == 2
\* JWT_REFRESH_EXPIRES_IN and JWT_ACCESS_EXPIRES_IN, in clock seconds
RefreshExpiresIn == 2
AccessExpiresIn == 2
\* the 7 days of refreshTokens.createdAt's expires option, in clock steps
TokenTtl == 2
\* reviews and requests in the runs of the content routes
MaxReviews == 2
MaxContentRequests == 6
\* requests in the runs of the watchlist, favorites and history routes
MaxListRequests == 5

Procs == 1..NumProcs
Ids == 1..MaxUsers
Usernames == {"alice", "bob"}
Emails == {"a@x.com", "A@x.com", "b@x.com"}
Passwords == {"secret1", "secret2"}
FirstNames == {"Al", "Bo"}
LastNames == {"Lee", "Allen"}
Roles == {"user", "admin"}
ReviewIds == 1..MaxReviews
ContentIds == {"tt1"}
ContentTypes == {"movie", "tv"}
Ratings == {3, 8}
Progresses == {0, 50}

\* ---------------------------------------------------------------- values
NoTok == [typ |-> "none", uid |-> 0, iat |-> 0]
\* the paging fields of an answer that has none
NoPage == [total |-> 0, totalPages |-> 0, currentPage |-> 0]

\* a Date: the clock second and, within it, the millisecond, counted over
\* the milliseconds of that second in which a document was stamped
NoDate == [s |-> -1, ms |-> 0]

NoResp == [status |-> 0, message |-> "", tokens |-> NoTok, users |-> <<>>, page |-> NoPage]

\* a document the TTL monitor has deleted: no query matches it
NoDoc == [username |-> "", email |-> "", password |-> "", firstName |-> "", lastName |-> "",
          role |-> "",
          isActive |-> FALSE, refreshTokens |-> <<>>, watchlist |-> <<>>, favorites |-> <<>>,
          watchHistory |-> <<>>, createdAt |-> NoDate, v |-> -1]

\* String.prototype.toLowerCase on the e-mail addresses of Emails
Lower(e) == IF e = "A@x.com" THEN "a@x.com" ELSE e

\* the pre-save hook: bcrypt.hash(password, salt)
Hash(pw) == "$2a$" \o pw

\* userSchema.methods.comparePassword: bcrypt.compare(candidate, this.password)
comparePassword(candidate, hash) == hash = "$2a$" \o candidate

\* jwt.sign({ userId }, secret, { expiresIn }): the token is a function of
\* the payload { userId, iat, exp } and of the secret, iat being the clock
\* second of the call; a pair shares userId and iat.
generateTokens(userId, now) == [typ |-> "refresh", uid |-> userId, iat |-> now]

\* the access token of the pair whose refresh token is t
AccessOf(t) == [typ |-> "access", uid |-> t.uid, iat |-> t.iat]

\* jwt.verify(token, JWT_REFRESH_SECRET): signature, then expiry
VerifyRefresh(t, now) ==
    IF t.typ # "refresh" THEN "JsonWebTokenError"
    ELSE IF now >= t.iat + RefreshExpiresIn THEN "TokenExpiredError"
    ELSE "ok"

\* authenticateToken: the access token's signature and expiry
authenticateToken(a, now) == a.typ = "access" /\ now < a.iat + AccessExpiresIn

\* Array.prototype.filter(token => token.token !== refreshToken)
RECURSIVE FilterOut(_, _)
FilterOut(s, t) ==
    IF s = <<>> THEN <<>>
    ELSE IF Head(s) = t THEN FilterOut(Tail(s), t)
         ELSE <<Head(s)>> \o FilterOut(Tail(s), t)

\* Array.prototype.some(token => token.token === refreshToken)
Some(s, t) == \E i \in 1..Len(s) : s[i] = t

Range(s) == {s[i] : i \in 1..Len(s)}

\* toJSON without its delete of refreshTokens
toJSONKeepsTokens(doc) == [f \in DOMAIN doc \ {"password"} |-> doc[f]]

\* userSchema.methods.toJSON: toObject() without password and refreshTokens
toJSON(doc) == [f \in DOMAIN doc \ {"password", "refreshTokens"} |-> doc[f]]

\* Query.select('-password -refreshTokens'): the document without these paths
Select(doc, excluded) == [f \in DOMAIN doc \ excluded |-> doc[f]]

VARIABLES
    users,      \* the User collection: users[id] is the document with _id id
    clock,      \* Date.now() in seconds
    req,        \* req[p]: the request handled in slot p
    reqCount,   \* requests started so far
    issued,     \* the refresh tokens returned to clients
    consumed,   \* refresh tokens a successful refresh has been called with
    removed,    \* refresh tokens a completed logout or rotation took out
    reviews     \* the Review collection: reviews[id] is the document with _id id

vars == <<users, clock, req, reqCount, issued, consumed, removed, reviews>>

\* ------------------------------------------------------------ the store
\* the signup query with the e-mail as typed
FindByEmailOrUsernameRaw(email, username) ==
    {i \in 1..Len(users) : /\ users[i] # NoDoc
                            /\ (users[i].email = email \/ users[i].username = username)}

\* User.findOne({ $or: [{ email }, { username }] }): query casting applies
\* the schema's lowercase setter to the e-mail
FindByEmailOrUsername(email, username) ==
    {i \in 1..Len(users) : /\ users[i] # NoDoc
                            /\ (users[i].email = Lower(email) \/ users[i].username = username)}

\* User.findOne({ email })
FindByEmail(email) == {i \in 1..Len(users) : users[i] # NoDoc /\ users[i].email = Lower(email)}

\* User.findById(id)
FindById(id) == {i \in 1..Len(users) : users[i] # NoDoc /\ i = id}

First(S) == CHOOSE i \in S : \A j \in S : i <= j

\* ------------------------------------------------------------- requests
Idle == [op |-> "idle", pc |-> "idle", no |-> 0, seen |-> {}, clk |-> 0,
         username |-> "", email |-> "", password |-> "", firstName |-> "", lastName |-> "",
         tok |-> NoTok, uid |-> 0, v |-> 0, snap |-> <<>>,
         write |-> "none", list |-> <<>>, newTok |-> NoTok, body |-> <<>>, resp |-> NoResp,
         rid |-> 0, role |-> "", contentId |-> "", contentType |-> "", rating |-> 0,
         doc |-> NoDoc, reuse |-> FALSE, page |-> NoPage, search |-> "", limit |-> 0,
         idx |-> 0]

InFlight(p) == req[p].pc \notin {"idle", "done"}

Free(p) == ~InFlight(p) /\ reqCount < MaxRequests

\* a request arriving in slot p
Arrive(p, op) == [Idle EXCEPT !.op = op, !.no = reqCount + 1, !.clk = clock,
                              !.seen = {q \in Procs : InFlight(q)}]

\* a finished request: what was asked, what the handler read, what it answered
Finished(r) ==
    [Idle EXCEPT !.op = r.op, !.pc = "done", !.no = r.no, !.seen = r.seen, !.clk = r.clk,
                 !.tok = r.tok, !.uid = r.uid, !.snap = r.snap]

Reply(r, status, message) ==
    [Finished(r) EXCEPT !.resp = [NoResp EXCEPT !.status = status, !.message = message]]

\* res.json({ message, user, accessToken, refreshToken }): the user is
\* serialised with toJSON
ReplyTokens(r, status, message) ==
    [Finished(r) EXCEPT !.resp = [NoResp EXCEPT !.status = status, !.message = message,
                                                !.tokens = r.newTok, !.users = r.body]]

\* res.json({ message, user }) or res.json({ users })
ReplyUsers(r, status, message, docs) ==
    [Finished(r) EXCEPT !.resp = [NoResp EXCEPT !.status = status, !.message = message,
                                                !.users = docs]]

\* next(error): the error leaves the route for the application's error
\* handler; the status 500 stands for that handler's answer
NextError(r, name) == Reply(r, 500, name)

Init ==
    /\ users = <<>>
    /\ clock = 0
    /\ req = [p \in Procs |-> Idle]
    /\ reqCount = 0
    /\ issued = {}
    /\ consumed = {}
    /\ removed = {}
    /\ reviews = <<>>

\* tokens that leave account id's outstanding set when it becomes list
Leaving(id, list) == Range(users[id].refreshTokens) \ Range(list)

\* the pre-save hook without its isModified('password') test
PreSaveAlways(doc, passwordModified) == [doc EXCEPT !.password = Hash(@)]

\* the pre-save hook: hashes the password when it is modified
PreSave(doc, passwordModified) ==
    IF passwordModified THEN [doc EXCEPT !.password = Hash(@)] ELSE doc

\* what a save() of request r does to the collection: the pre-save hook
\* with the password unmodified, then $push of the new token, or $set of
\* the whole array; both increment __v
Saved(r) ==
    IF r.write = "push"
    THEN [users EXCEPT ![r.uid] = [PreSave(@, FALSE) EXCEPT !.refreshTokens = Append(@, r.newTok),
                                                            !.v = @ + 1]]
    ELSE IF r.write = "set"
    THEN [users EXCEPT ![r.uid] = [PreSave(@, FALSE) EXCEPT !.refreshTokens = r.list,
                                                            !.v = @ + 1]]
    ELSE users

\* the condition of the update: the document is still there, and a $set
\* of an array or of an array element carries { __v: read }
SaveMatches(r) ==
    users[r.uid] # NoDoc /\ (r.write \in {"set", "where"} => users[r.uid].v = r.v)

\* ---------------------------------------------------------------- signup
\* the new User document before save
NewUser(username, email, password, firstName, lastName) ==
    [username |-> username, email |-> Lower(email), password |-> password,
     firstName |-> firstName, lastName |-> lastName, role |-> "user",
     isActive |-> TRUE, refreshTokens |-> <<>>, watchlist |-> <<>>, favorites |-> <<>>,
     watchHistory |-> <<>>, createdAt |-> NoDate, v |-> 0]

\* the dates the timestamps of this clock second hold: those of the stored
\* documents and of the documents whose insert is on its way
Stamped ==
    {users[i].createdAt.ms : i \in {j \in 1..Len(users) : /\ users[j] # NoDoc
                                                          /\ users[j].createdAt.s = clock}}
    \cup {req[q].doc.createdAt.ms :
             q \in {o \in Procs : /\ req[o].op = "signup" /\ req[o].pc = "insert"
                                  /\ req[o].doc.createdAt.s = clock}}

\* new Date() of the timestamps option: the first millisecond stamped in
\* this second, or the millisecond of the latest stamp, or a later one
Now ==
    IF Stamped = {} THEN {[s |-> clock, ms |-> 0]}
    ELSE LET last == CHOOSE m \in Stamped : \A n \in Stamped : n <= m
         IN {[s |-> clock, ms |-> last], [s |-> clock, ms |-> last + 1]}

\* a collection without the unique indexes
UniqueOkNoIndex(doc) == doc = doc

\* the unique indexes on username and email
UniqueOk(doc) ==
    \A i \in 1..Len(users) :
        users[i] # NoDoc => users[i].username # doc.username /\ users[i].email # doc.email

SignupMessage(existingUser, email) ==
    IF existingUser.email = email THEN "Email already registered" ELSE "Username already taken"

Inserting == {q \in Procs : req[q].op = "signup" /\ req[q].pc \in {"create", "insert"}}

SignupBegin(p, username, email, password, firstName, lastName) ==
    /\ Free(p)
    /\ LET r == [Arrive(p, "signup") EXCEPT !.username = username, !.email = email,
                                            !.password = password, !.firstName = firstName,
                                            !.lastName = lastName]
           existing == FindByEmailOrUsername(email, username)
       IN IF existing # {}
          THEN req' = [req EXCEPT ![p] = Reply(r, 400, SignupMessage(users[First(existing)], email))]
          ELSE /\ Len(users) + Cardinality(Inserting) < MaxUsers
               /\ req' = [req EXCEPT ![p] = [r EXCEPT !.pc = "create"]]
    /\ reqCount' = reqCount + 1
    /\ UNCHANGED <<users, clock, issued, consumed, removed, reviews>>

\* the handler resumes after findOne: new User(...) and the call of the
\* first user.save(), whose timestamps hook sets createdAt to the date of
\* the call, before the password is hashed and the insert is sent
SignupCreate(p) ==
    /\ req[p].op = "signup" /\ req[p].pc = "create"
    /\ LET r == req[p]
       IN \E date \in Now :
             req' = [req EXCEPT ![p] =
                        [r EXCEPT !.pc = "insert",
                                  !.doc = [NewUser(r.username, r.email, r.password,
                                                   r.firstName, r.lastName)
                                              EXCEPT !.createdAt = date]]]
    /\ UNCHANGED <<users, clock, reqCount, issued, consumed, removed, reviews>>

\* the first user.save(): the pre-save hook and the insert, as the store
\* applies it; the document is in the collection from here on
SignupInsert(p) ==
    /\ req[p].op = "signup" /\ req[p].pc = "insert"
    /\ LET r == req[p]
           doc == PreSave(r.doc, TRUE)
           id == Len(users) + 1
       IN IF UniqueOk(doc)
          THEN /\ users' = Append(users, doc)
               /\ req' = [req EXCEPT ![p] = [r EXCEPT !.pc = "tokens", !.uid = id, !.doc = doc]]
          ELSE /\ req' = [req EXCEPT ![p] = NextError(r, "E11000 duplicate key")]
               /\ UNCHANGED users
    /\ UNCHANGED <<clock, reqCount, issued, consumed, removed, reviews>>

\* the handler resumes after the first save: generateTokens(user._id) at the
\* clock of that moment, and the push on the document it holds
SignupTokens(p) ==
    /\ req[p].op = "signup" /\ req[p].pc = "tokens"
    /\ LET r == req[p]
       IN req' = [req EXCEPT ![p] = [r EXCEPT !.pc = "save", !.write = "push", !.clk = clock,
                                              !.newTok = generateTokens(r.uid, clock),
                                              !.body = <<toJSON([r.doc EXCEPT !.v = @ + 1])>>]]
    /\ UNCHANGED <<users, clock, reqCount, issued, consumed, removed, reviews>>

\* the second user.save(): the $push of the refresh token; 201
SignupFinish(p) ==
    /\ req[p].op = "signup" /\ req[p].pc = "save"
    /\ LET r == req[p]
       IN IF SaveMatches(r)
          THEN /\ users' = Saved(r)
               /\ req' = [req EXCEPT ![p] = ReplyTokens(r, 201, "User registered successfully")]
               /\ issued' = issued \cup {r.newTok}
          ELSE /\ req' = [req EXCEPT ![p] = NextError(r, "VersionError")]
               /\ UNCHANGED <<users, issued>>
    /\ UNCHANGED <<clock, reqCount, consumed, removed, reviews>>

\* ----------------------------------------------------------------- login
\* the login route with its two checks exchanged
LoginOutcomeActiveFirst(user, password) ==
    IF user = NoDoc THEN "Invalid credentials"
    ELSE IF ~user.isActive THEN "Account deactivated"
    ELSE IF ~comparePassword(password, user.password) THEN "Invalid credentials"
    ELSE "Login successful"

\* the login route telling an unknown e-mail from a wrong password
LoginOutcomeNamesAccount(user, password) ==
    IF user = NoDoc THEN "Account not found"
    ELSE IF ~comparePassword(password, user.password) THEN "Invalid credentials"
    ELSE IF ~user.isActive THEN "Account deactivated"
    ELSE "Login successful"

\* the two checks of the login route, in the route's order, on the document
\* findOne returned (NoDoc for null)
LoginOutcome(user, password) ==
    IF user = NoDoc \/ ~comparePassword(password, user.password)
    THEN "Invalid credentials"
    ELSE IF ~user.isActive THEN "Account deactivated"
    ELSE "Login successful"

\* POST /login up to User.findOne({ email }): with no document the test
\* !user short-circuits and the route answers; with one the route awaits
\* user.comparePassword
LoginBegin(p, email, password) ==
    /\ Free(p)
    /\ LET r == [Arrive(p, "login") EXCEPT !.email = email, !.password = password]
           found == FindByEmail(email)
       IN IF found = {}
          THEN req' = [req EXCEPT ![p] = Reply(r, 401, LoginOutcome(NoDoc, password))]
          ELSE req' = [req EXCEPT ![p] = [r EXCEPT !.pc = "compare", !.uid = First(found),
                                                   !.doc = users[First(found)],
                                                   !.v = users[First(found)].v,
                                                   !.snap = users[First(found)].refreshTokens]]
    /\ reqCount' = reqCount + 1
    /\ UNCHANGED <<users, clock, issued, consumed, removed, reviews>>

\* comparePassword has resolved: the two checks on the document as it was
\* read, then generateTokens at the clock of this moment and the push
LoginCompare(p) ==
    /\ req[p].op = "login" /\ req[p].pc = "compare"
    /\ LET r == req[p]
           outcome == LoginOutcome(r.doc, r.password)
       IN IF outcome # "Login successful"
          THEN req' = [req EXCEPT ![p] = Reply(r, 401, outcome)]
          ELSE req' = [req EXCEPT ![p] = [r EXCEPT !.pc = "save", !.write = "push", !.clk = clock,
                                                   !.newTok = generateTokens(r.uid, clock),
                                                   !.body = <<toJSON([r.doc EXCEPT !.v = @ + 1])>>]]
    /\ UNCHANGED <<users, clock, reqCount, issued, consumed, removed, reviews>>

LoginFinish(p) ==
    /\ req[p].op = "login" /\ req[p].pc = "save"
    /\ LET r == req[p]
       IN IF SaveMatches(r)
          THEN /\ users' = Saved(r)
               /\ req' = [req EXCEPT ![p] = ReplyTokens(r, 200, "Login successful")]
               /\ issued' = issued \cup {r.newTok}
          ELSE /\ req' = [req EXCEPT ![p] = NextError(r, "VersionError")]
               /\ UNCHANGED <<users, issued>>
    /\ UNCHANGED <<clock, reqCount, consumed, removed, reviews>>

\* --------------------------------------------------------- refresh-token
\* what a client can put in the body: nothing, a refresh token it was
\* given, or the access token of a pair it was given
RefreshInputs == {NoTok} \cup issued \cup {AccessOf(t) : t \in issued}

\* the refresh route's check without the presence test
RefreshRejectsUserOnly(user, t) == user = NoDoc

\* !user || !user.refreshTokens.some(token => token.token === refreshToken),
\* on the document findById returned (NoDoc for null)
RefreshRejects(user, t) == user = NoDoc \/ ~Some(user.refreshTokens, t)

\* the rotation: filter the presented token out, push the new one
Rotate(tokens, t, new) == Append(FilterOut(tokens, t), new)

\* POST /refresh-token up to its first await: the 401 for a missing token
\* and jwt.verify at the clock of the arrival
RefreshBegin(p, t) ==
    /\ Free(p)
    /\ t \in RefreshInputs
    /\ LET r == [Arrive(p, "refresh") EXCEPT !.tok = t, !.reuse = t \in consumed]
           verdict == VerifyRefresh(t, clock)
       IN IF t = NoTok
          THEN req' = [req EXCEPT ![p] = Reply(r, 401, "Refresh token required")]
          ELSE IF verdict # "ok"
          THEN req' = [req EXCEPT ![p] = NextError(r, verdict)]
          ELSE req' = [req EXCEPT ![p] = [r EXCEPT !.pc = "find", !.uid = t.uid]]
    /\ reqCount' = reqCount + 1
    /\ UNCHANGED <<users, clock, issued, consumed, removed, reviews>>

\* User.findById(decoded.userId), as the store answers it
RefreshFind(p) ==
    /\ req[p].op = "refresh" /\ req[p].pc = "find"
    /\ LET r == req[p]
           user == IF FindById(r.uid) = {} THEN NoDoc ELSE users[r.uid]
       IN req' = [req EXCEPT ![p] = [r EXCEPT !.pc = "rotate", !.doc = user,
                                              !.v = user.v, !.snap = user.refreshTokens]]
    /\ UNCHANGED <<users, clock, reqCount, issued, consumed, removed, reviews>>

\* the handler resumes with the document: the presence check, then
\* generateTokens at the clock of this moment, the filter and the push
RefreshRotate(p) ==
    /\ req[p].op = "refresh" /\ req[p].pc = "rotate"
    /\ LET r == req[p]
           new == generateTokens(r.uid, clock)
       IN IF RefreshRejects(r.doc, r.tok)
          THEN req' = [req EXCEPT ![p] = Reply(r, 403, "Invalid refresh token")]
          ELSE req' = [req EXCEPT ![p] =
                          [r EXCEPT !.pc = "save", !.write = "set", !.clk = clock,
                                    !.list = Rotate(r.doc.refreshTokens, r.tok, new),
                                    !.newTok = new]]
    /\ UNCHANGED <<users, clock, reqCount, issued, consumed, removed, reviews>>

RefreshFinish(p) ==
    /\ req[p].op = "refresh" /\ req[p].pc = "save"
    /\ LET r == req[p]
       IN IF SaveMatches(r)
          THEN /\ users' = Saved(r)
               /\ req' = [req EXCEPT ![p] = ReplyTokens(r, 200, "")]
               /\ issued' = issued \cup {r.newTok}
               /\ consumed' = consumed \cup {r.tok}
               /\ removed' = removed \cup Leaving(r.uid, r.list)
          ELSE /\ req' = [req EXCEPT ![p] = NextError(r, "VersionError")]
               /\ UNCHANGED <<users, issued, consumed, removed>>
    /\ UNCHANGED <<clock, reqCount, reviews>>

\* ---------------------------------------------------------------- logout
\* the access tokens clients hold
AccessInputs == {AccessOf(t) : t \in issued}

\* the body's refreshToken: absent, or any string a client holds
LogoutInputs == {NoTok} \cup issued

\* the array the logout route assigns
LogoutList(tokens, t) == IF t # NoTok THEN FilterOut(tokens, t) ELSE <<>>

\* the logout route looking the account up from the body's refresh token
LogoutUserIdFromToken(a, t) == IF t # NoTok THEN t.uid ELSE a.uid

\* req.user.userId || req.user._id: the account the access token names
LogoutUserId(a, t) == a.uid

LogoutBegin(p, a, t) ==
    /\ Free(p)
    /\ a \in AccessInputs /\ authenticateToken(a, clock)
    /\ t \in LogoutInputs
    /\ LET r == [Arrive(p, "logout") EXCEPT !.tok = t, !.uid = LogoutUserId(a, t)]
           found == FindById(LogoutUserId(a, t))
       IN IF found = {}
          THEN req' = [req EXCEPT ![p] = Reply(r, 404, "User not found")]
          ELSE LET id == First(found)
                   list == LogoutList(users[id].refreshTokens, t)
               IN req' = [req EXCEPT ![p] =
                             [r EXCEPT !.pc = "save", !.v = users[id].v,
                                       !.snap = users[id].refreshTokens, !.list = list,
                                       !.write = IF list = users[id].refreshTokens
                                                 THEN "none" ELSE "set"]]
    /\ reqCount' = reqCount + 1
    /\ UNCHANGED <<users, clock, issued, consumed, removed, reviews>>

LogoutFinish(p) ==
    /\ req[p].op = "logout" /\ req[p].pc = "save"
    /\ LET r == req[p]
       IN IF SaveMatches(r)
          THEN /\ users' = Saved(r)
               /\ req' = [req EXCEPT ![p] = Reply(r, 200, "Logged out successfully")]
               /\ removed' = IF r.write = "set" THEN removed \cup Leaving(r.uid, r.list)
                             ELSE removed
          ELSE /\ req' = [req EXCEPT ![p] =
                               NextError(r, IF r.write = "none" THEN "DocumentNotFoundError"
                                            ELSE "VersionError")]
               /\ UNCHANGED <<users, removed>>
    /\ UNCHANGED <<clock, reqCount, issued, consumed, reviews>>

\* ----------------------------------------------------------------- admin
\* PUT /users/:userId/deactivate: findByIdAndUpdate(userId, { isActive })
Deactivate(userId, isActive) ==
    /\ reqCount < MaxRequests
    /\ userId \in FindById(userId)
    /\ users' = [users EXCEPT ![userId].isActive = isActive]
    /\ reqCount' = reqCount + 1
    /\ UNCHANGED <<clock, req, issued, consumed, removed, reviews>>

\* ----------------------------------------------------------------- clock
Tick ==
    /\ clock < MaxClock
    /\ clock' = clock + 1
    /\ UNCHANGED <<users, req, reqCount, issued, consumed, removed, reviews>>

\* accounts are registered with the one password, logins try both
Next ==
    \/ \E p \in Procs, u \in Usernames, e \in Emails : SignupBegin(p, u, e, "secret1", "Bo", "Lee")
    \/ \E p \in Procs : SignupCreate(p)
    \/ \E p \in Procs : SignupInsert(p)
    \/ \E p \in Procs : SignupTokens(p)
    \/ \E p \in Procs : SignupFinish(p)
    \/ \E p \in Procs, e \in Emails, pw \in Passwords : LoginBegin(p, e, pw)
    \/ \E p \in Procs : LoginCompare(p)
    \/ \E p \in Procs : LoginFinish(p)
    \/ \E p \in Procs : \E t \in RefreshInputs : RefreshBegin(p, t)
    \/ \E p \in Procs : RefreshFind(p)
    \/ \E p \in Procs : RefreshRotate(p)
    \/ \E p \in Procs : RefreshFinish(p)
    \/ \E p \in Procs : \E a \in AccessInputs, t \in LogoutInputs : LogoutBegin(p, a, t)
    \/ \E p \in Procs : LogoutFinish(p)
    \/ \E id \in Ids, b \in BOOLEAN : Deactivate(id, b)
    \/ Tick

Spec == Init /\ [][Next]_vars

TypeOK == clock \in 0..MaxClock /\ reqCount \in 0..MaxContentRequests /\ Len(users) <= MaxUsers

\* ------------------------------------------------------- the TTL monitor
\* refreshTokens.createdAt is declared with expires: '7d', which is a TTL
\* index on refreshTokens.createdAt.  MongoDB's TTL monitor deletes a
\* document once the earliest date its indexed array holds is that old;
\* createdAt defaults to the time of the push, the token's iat.
TtlExpire(id) ==
    /\ id \in FindById(id)
    /\ \E i \in 1..Len(users[id].refreshTokens) :
          clock >= users[id].refreshTokens[i].iat + TokenTtl
    /\ users' = [users EXCEPT ![id] = NoDoc]
    /\ UNCHANGED <<clock, req, reqCount, issued, consumed, removed, reviews>>

NextTtl ==
    \/ Next
    \/ \E id \in Ids : TtlExpire(id)

SpecTtl == Init /\ [][NextTtl]_vars

\* ------------------------------------------- profile and admin endpoints
\* GET /profile: res.json({ user: req.user }), req.user being the document
\* authenticateToken loaded
ProfileRead(p, a) ==
    /\ Free(p)
    /\ a \in AccessInputs /\ authenticateToken(a, clock)
    /\ a.uid \in FindById(a.uid)
    /\ req' = [req EXCEPT ![p] = ReplyUsers([Arrive(p, "profile") EXCEPT !.uid = a.uid], 200, "",
                                            <<toJSON(users[a.uid])>>)]
    /\ reqCount' = reqCount + 1
    /\ UNCHANGED <<users, clock, issued, consumed, removed, reviews>>

\* the names of the bodies of PUT /profile
ProfileInputs == {[firstName |-> "Al", lastName |-> "Lee"],
                  [firstName |-> "Bo", lastName |-> "Allen"]}

\* PUT /profile: findByIdAndUpdate(req.user._id, { firstName, lastName, ... },
\*                                 { new: true })
ProfileUpdate(p, a, firstName, lastName) ==
    /\ Free(p)
    /\ a \in AccessInputs /\ authenticateToken(a, clock)
    /\ a.uid \in FindById(a.uid)
    /\ users' = [users EXCEPT ![a.uid].firstName = firstName, ![a.uid].lastName = lastName]
    /\ req' = [req EXCEPT ![p] = ReplyUsers([Arrive(p, "update") EXCEPT !.uid = a.uid], 200,
                                            "Profile updated successfully",
                                            <<toJSON(users'[a.uid])>>)]
    /\ reqCount' = reqCount + 1
    /\ UNCHANGED <<clock, issued, consumed, removed, reviews>>

\* String.prototype.toLowerCase, letter by letter, for the capital letters
\* the strings of the model have
LowerChar(c) ==
    IF c = "A" THEN "a" ELSE IF c = "B" THEN "b" ELSE IF c = "L" THEN "l" ELSE c

RECURSIVE LowerCase(_)
LowerCase(str) ==
    IF str = "" THEN "" ELSE LowerChar(SubSeq(str, 1, 1)) \o LowerCase(SubSeq(str, 2, Len(str)))

\* { $regex: search, $options: 'i' } for a search string of letters: the
\* field contains the string, letter case ignored
Regex(field, search) ==
    \E i \in 1..(Len(field) - Len(search) + 1) :
        SubSeq(LowerCase(field), i, i + Len(search) - 1) = LowerCase(search)

\* the query of GET /users: the $or of the regular expressions when search
\* is given, the role when role is given
Matches(doc, search, role) ==
    /\ doc # NoDoc
    /\ search # "" => \/ Regex(doc.username, search)
                      \/ Regex(doc.email, search)
                      \/ Regex(doc.firstName, search)
                      \/ Regex(doc.lastName, search)
    /\ role # "" => doc.role = role

\* date a is later than date b
Later(a, b) == a.s > b.s \/ (a.s = b.s /\ a.ms > b.ms)

\* the orders .sort({ createdAt: -1 }) can give the documents ids: every
\* order in which no document comes after an older one; documents of the
\* same date come in either order
Sorted(ids) ==
    {o \in [1..Cardinality(ids) -> ids] :
        /\ \A i, j \in DOMAIN o : i # j => o[i] # o[j]
        /\ \A i, j \in DOMAIN o :
              i < j => ~Later(users[o[j]].createdAt, users[o[i]].createdAt)}

\* the answers of a find(query).sort({ createdAt: -1 }): the documents the
\* query matches, newest first, each without the paths select() excludes
Listed(search, role) ==
    {[i \in DOMAIN o |-> toJSON(Select(users[o[i]], {"password", "refreshTokens"}))] :
        o \in Sorted({i \in 1..Len(users) : Matches(users[i], search, role)})}

\* .skip((page - 1) * limit).limit(limit * 1)
Paged(docs, page, limit) ==
    SubSeq(docs, (page - 1) * limit + 1,
           IF page * limit < Len(docs) THEN page * limit ELSE Len(docs))

\* User.countDocuments(query)
countDocuments(search, role) ==
    Cardinality({i \in 1..Len(users) : Matches(users[i], search, role)})

\* Math.ceil(total / limit)
TotalPages(total, limit) == (total + limit - 1) \div limit

\* the query strings of GET /users: the defaults, a second page of one, a
\* search and a role
AdminQueries ==
    {[page |-> 1, limit |-> 20, search |-> "", role |-> ""],
     [page |-> 2, limit |-> 1, search |-> "", role |-> ""],
     [page |-> 1, limit |-> 20, search |-> "AL", role |-> ""],
     [page |-> 1, limit |-> 20, search |-> "", role |-> "admin"]}

\* GET /users up to User.find(query).select('-password -refreshTokens')
\*                       .sort({ createdAt: -1 }).limit(limit * 1).skip((page - 1) * limit)
AdminUsersBegin(p, q) ==
    /\ Free(p)
    /\ \E found \in Listed(q.search, q.role) :
          req' = [req EXCEPT ![p] =
                     [Arrive(p, "users") EXCEPT
                         !.pc = "count", !.search = q.search, !.role = q.role,
                         !.limit = q.limit, !.page = [NoPage EXCEPT !.currentPage = q.page],
                         !.body = Paged(found, q.page, q.limit)]]
    /\ reqCount' = reqCount + 1
    /\ UNCHANGED <<users, clock, issued, consumed, removed, reviews>>

\* User.countDocuments(query), then res.json({ users, totalPages, currentPage, total })
AdminUsersFinish(p) ==
    /\ req[p].op = "users" /\ req[p].pc = "count"
    /\ LET r == req[p]
           total == countDocuments(r.search, r.role)
           answer == ReplyUsers(r, 200, "", r.body)
       IN req' = [req EXCEPT ![p] =
                     [answer EXCEPT !.resp.page =
                         [total |-> total, totalPages |-> TotalPages(total, r.limit),
                          currentPage |-> r.page.currentPage]]]
    /\ UNCHANGED <<users, clock, reqCount, issued, consumed, removed, reviews>>

RoleInputs == Roles \cup {"root"}

\* PUT /users/:userId/role
AdminRole(p, userId, role) ==
    /\ Free(p)
    /\ LET r == [Arrive(p, "role") EXCEPT !.uid = userId]
       IN IF role \notin Roles
          THEN req' = [req EXCEPT ![p] = Reply(r, 400, "Invalid role")] /\ UNCHANGED users
          ELSE IF FindById(userId) = {}
          THEN req' = [req EXCEPT ![p] = Reply(r, 404, "User not found")] /\ UNCHANGED users
          ELSE /\ users' = [users EXCEPT ![userId].role = role]
               /\ req' = [req EXCEPT ![p] =
                             ReplyUsers(r, 200, "User role updated successfully",
                                        <<toJSON(Select(users'[userId],
                                                        {"password", "refreshTokens"}))>>)]
    /\ reqCount' = reqCount + 1
    /\ UNCHANGED <<clock, issued, consumed, removed, reviews>>

\* PUT /users/:userId/deactivate, with its answer
AdminDeactivate(p, userId, isActive) ==
    /\ Free(p)
    /\ LET r == [Arrive(p, "deactivate") EXCEPT !.uid = userId]
       IN IF FindById(userId) = {}
          THEN req' = [req EXCEPT ![p] = Reply(r, 404, "User not found")] /\ UNCHANGED users
          ELSE /\ users' = [users EXCEPT ![userId].isActive = isActive]
               /\ req' = [req EXCEPT ![p] =
                             ReplyUsers(r, 200, IF isActive THEN "User activated successfully"
                                                ELSE "User deactivated successfully",
                                        <<toJSON(Select(users'[userId],
                                                        {"password", "refreshTokens"}))>>)]
    /\ reqCount' = reqCount + 1
    /\ UNCHANGED <<clock, issued, consumed, removed, reviews>>

NextApi ==
    \/ Next
    \/ \E p \in Procs : \E a \in AccessInputs : ProfileRead(p, a)
    \/ \E p \in Procs : \E a \in AccessInputs, n \in ProfileInputs :
          ProfileUpdate(p, a, n.firstName, n.lastName)
    \/ \E p \in Procs : \E q \in AdminQueries : AdminUsersBegin(p, q)
    \/ \E p \in Procs : AdminUsersFinish(p)
    \/ \E p \in Procs, id \in Ids, role \in RoleInputs : AdminRole(p, id, role)
    \/ \E p \in Procs, id \in Ids, b \in BOOLEAN : AdminDeactivate(p, id, b)

SpecApi == Init /\ [][NextApi]_vars

\* ------------------------------------------------ reviews and the watchlist
\* the content routes are reached with the access token of a stored account;
\* req.user is the document authenticateToken loaded
Authenticated(a) ==
    a \in AccessInputs /\ authenticateToken(a, clock) /\ a.uid \in FindById(a.uid)

FreeContent(p) == ~InFlight(p) /\ reqCount < MaxContentRequests

\* a finished request of a content route: who asked, for which review, and
\* the answer
ContentReply(r, status, message) ==
    [Idle EXCEPT !.op = r.op, !.pc = "done", !.uid = r.uid, !.rid = r.rid, !.role = r.role,
                 !.resp = [NoResp EXCEPT !.status = status, !.message = message]]

\* res.json({ success, message, review }) with the populated review
ContentReplyReview(r, status, message, user) ==
    [ContentReply(r, status, message) EXCEPT !.resp.users = user]

\* a review findByIdAndDelete has removed
NoReview == [userId |-> 0, contentId |-> "", contentType |-> "", rating |-> 0]

\* Review.findOne({ userId, contentId, contentType })
FindReview(userId, contentId, contentType) ==
    {i \in 1..Len(reviews) : /\ reviews[i].userId = userId
                             /\ reviews[i].contentId = contentId
                             /\ reviews[i].contentType = contentType}

\* Review.findById(reviewId)
FindReviewById(reviewId) == {i \in 1..Len(reviews) : i = reviewId /\ reviews[i] # NoReview}

\* review.populate('userId', 'username firstName lastName profileImage'):
\* the selected paths of the author's document, nothing when it is gone
Populate(userId) ==
    IF FindById(userId) = {} THEN <<>>
    ELSE <<[username |-> users[userId].username, firstName |-> users[userId].firstName,
            lastName |-> users[userId].lastName]>>

CreatingReview == {q \in Procs : req[q].op = "reviewCreate" /\ req[q].pc = "save"}

\* POST /reviews up to its save
ReviewCreateBegin(p, a, contentId, contentType, rating) ==
    /\ FreeContent(p)
    /\ Authenticated(a)
    /\ LET r == [Arrive(p, "reviewCreate") EXCEPT !.uid = a.uid, !.contentId = contentId,
                                                  !.contentType = contentType, !.rating = rating]
       IN IF FindReview(a.uid, contentId, contentType) # {}
          THEN req' = [req EXCEPT ![p] = ContentReply(r, 400, "You have already reviewed this content")]
          ELSE /\ Len(reviews) + Cardinality(CreatingReview) < MaxReviews
               /\ req' = [req EXCEPT ![p] = [r EXCEPT !.pc = "save"]]
    /\ reqCount' = reqCount + 1
    /\ UNCHANGED <<users, clock, issued, consumed, removed, reviews>>

\* review.save() of the new Review: the insert
ReviewCreateSave(p) ==
    /\ req[p].op = "reviewCreate" /\ req[p].pc = "save"
    /\ LET r == req[p]
       IN /\ reviews' = Append(reviews, [userId |-> r.uid, contentId |-> r.contentId,
                                         contentType |-> r.contentType, rating |-> r.rating])
          /\ req' = [req EXCEPT ![p] = [r EXCEPT !.pc = "populate", !.rid = Len(reviews) + 1]]
    /\ UNCHANGED <<users, clock, reqCount, issued, consumed, removed>>

\* review.populate(...), then 201
ReviewCreateFinish(p) ==
    /\ req[p].op = "reviewCreate" /\ req[p].pc = "populate"
    /\ req' = [req EXCEPT ![p] = ContentReplyReview(req[p], 201, "Review created successfully",
                                                    Populate(req[p].uid))]
    /\ UNCHANGED <<users, clock, reqCount, issued, consumed, removed, reviews>>

\* the update route letting every authenticated account through
UpdateForbiddenNever(review, userId) == review # review

\* review.userId.toString() !== req.user._id.toString()
UpdateForbidden(review, userId) == review.userId # userId

\* PUT /reviews/:reviewId up to its save
ReviewUpdateBegin(p, a, reviewId, rating) ==
    /\ FreeContent(p)
    /\ Authenticated(a)
    /\ LET r == [Arrive(p, "reviewUpdate") EXCEPT !.uid = a.uid, !.rid = reviewId,
                                                  !.rating = rating]
       IN IF FindReviewById(reviewId) = {}
          THEN req' = [req EXCEPT ![p] = ContentReply(r, 404, "Review not found")]
          ELSE IF UpdateForbidden(reviews[reviewId], a.uid)
          THEN req' = [req EXCEPT ![p] =
                          ContentReply(r, 403, "Not authorized to update this review")]
          ELSE req' = [req EXCEPT ![p] =
                          [r EXCEPT !.pc = "save",
                                    !.write = IF reviews[reviewId].rating = rating
                                              THEN "none" ELSE "set"]]
    /\ reqCount' = reqCount + 1
    /\ UNCHANGED <<users, clock, issued, consumed, removed, reviews>>

\* review.save() of the modified paths; a review deleted meanwhile matches
\* no document
ReviewUpdateSave(p) ==
    /\ req[p].op = "reviewUpdate" /\ req[p].pc = "save"
    /\ LET r == req[p]
       IN IF reviews[r.rid] = NoReview
          THEN /\ req' = [req EXCEPT ![p] = ContentReply(r, 500, "DocumentNotFoundError")]
               /\ UNCHANGED reviews
          ELSE /\ reviews' = IF r.write = "set" THEN [reviews EXCEPT ![r.rid].rating = r.rating]
                             ELSE reviews
               /\ req' = [req EXCEPT ![p] = [r EXCEPT !.pc = "populate"]]
    /\ UNCHANGED <<users, clock, reqCount, issued, consumed, removed>>

\* review.populate(...), then the answer
ReviewUpdateFinish(p) ==
    /\ req[p].op = "reviewUpdate" /\ req[p].pc = "populate"
    /\ req' = [req EXCEPT ![p] = ContentReplyReview(req[p], 200, "Review updated successfully",
                                                    Populate(req[p].uid))]
    /\ UNCHANGED <<users, clock, reqCount, issued, consumed, removed, reviews>>

\* review.userId.toString() !== req.user._id.toString() && req.user.role !== 'admin'
DeleteForbidden(review, user, userId) == review.userId # userId /\ user.role # "admin"

\* DELETE /reviews/:reviewId up to Review.findById: authenticateToken has
\* loaded req.user, whose role the route tests later
ReviewDeleteBegin(p, a, reviewId) ==
    /\ FreeContent(p)
    /\ Authenticated(a)
    /\ req' = [req EXCEPT ![p] = [Arrive(p, "reviewDelete") EXCEPT
                                     !.pc = "find", !.uid = a.uid, !.rid = reviewId,
                                     !.doc = users[a.uid], !.role = users[a.uid].role]]
    /\ reqCount' = reqCount + 1
    /\ UNCHANGED <<users, clock, issued, consumed, removed, reviews>>

\* Review.findById(reviewId) and the two tests, on req.user as it was loaded
ReviewDeleteFind(p) ==
    /\ req[p].op = "reviewDelete" /\ req[p].pc = "find"
    /\ LET r == req[p]
       IN IF FindReviewById(r.rid) = {}
          THEN req' = [req EXCEPT ![p] = ContentReply(r, 404, "Review not found")]
          ELSE IF DeleteForbidden(reviews[r.rid], r.doc, r.uid)
          THEN req' = [req EXCEPT ![p] =
                          ContentReply(r, 403, "Not authorized to delete this review")]
          ELSE req' = [req EXCEPT ![p] = [r EXCEPT !.pc = "save"]]
    /\ UNCHANGED <<users, clock, reqCount, issued, consumed, removed, reviews>>

\* Review.findByIdAndDelete(reviewId); 200
ReviewDeleteFinish(p) ==
    /\ req[p].op = "reviewDelete" /\ req[p].pc = "save"
    /\ reviews' = [reviews EXCEPT ![req[p].rid] = NoReview]
    /\ req' = [req EXCEPT ![p] = ContentReply(req[p], 200, "Review deleted successfully")]
    /\ UNCHANGED <<users, clock, reqCount, issued, consumed, removed>>

\* PUT /users/:userId/role: findByIdAndUpdate(userId, { role })
SetRole(userId, role) ==
    /\ reqCount < MaxContentRequests
    /\ userId \in FindById(userId)
    /\ users[userId].role # role
    /\ users' = [users EXCEPT ![userId].role = role]
    /\ reqCount' = reqCount + 1
    /\ UNCHANGED <<clock, req, issued, consumed, removed, reviews>>

\* reviews are created for the one movie, with the one rating; updates
\* carry both ratings
NextContent ==
    \/ \E p \in Procs, u \in Usernames :
          SignupBegin(p, u, IF u = "alice" THEN "a@x.com" ELSE "b@x.com", "secret1", "Bo", "Lee")
    \/ \E p \in Procs : SignupCreate(p)
    \/ \E p \in Procs : SignupInsert(p)
    \/ \E p \in Procs : SignupTokens(p)
    \/ \E p \in Procs : SignupFinish(p)
    \/ \E id \in Ids, role \in Roles : SetRole(id, role)
    \/ \E p \in Procs : \E a \in AccessInputs, c \in ContentIds :
          ReviewCreateBegin(p, a, c, "movie", 3)
    \/ \E p \in Procs : ReviewCreateSave(p)
    \/ \E p \in Procs : ReviewCreateFinish(p)
    \/ \E p \in Procs : \E a \in AccessInputs, id \in ReviewIds, n \in Ratings :
          ReviewUpdateBegin(p, a, id, n)
    \/ \E p \in Procs : ReviewUpdateSave(p)
    \/ \E p \in Procs : ReviewUpdateFinish(p)
    \/ \E p \in Procs : \E a \in AccessInputs, id \in ReviewIds : ReviewDeleteBegin(p, a, id)
    \/ \E p \in Procs : ReviewDeleteFind(p)
    \/ \E p \in Procs : ReviewDeleteFinish(p)

SpecContent == Init /\ [][NextContent]_vars

\* ----------------------------------- watchlist, favorites and watch history
\* the routes that save req.user, the document authenticateToken loaded
FreeLists(p) == ~InFlight(p) /\ reqCount < MaxListRequests

\* what req.user.save() writes of the array path: $push of the pushed item
\* and $inc of __v; $set of the assigned array under { __v: read } and $inc
\* of __v; $set of the one assigned element, path.<idx>, under { __v: read }
SavedPath(r, path) ==
    IF r.write = "push"
    THEN [users EXCEPT ![r.uid] = [PreSave(@, FALSE) EXCEPT ![path] = Append(@, r.body[1]),
                                                            !.v = @ + 1]]
    ELSE IF r.write = "set"
    THEN [users EXCEPT ![r.uid] = [PreSave(@, FALSE) EXCEPT ![path] = r.list, !.v = @ + 1]]
    ELSE IF r.write = "where"
    THEN [users EXCEPT ![r.uid] = [PreSave(@, FALSE) EXCEPT ![path][r.idx] = r.body[1]]]
    ELSE users

\* the error of a save() that matched no document
SaveError(r) == IF r.write = "none" THEN "DocumentNotFoundError" ELSE "VersionError"

\* the save() of a list route and its answer
SaveAndAnswer(p, path, message) ==
    LET r == req[p]
    IN IF SaveMatches(r)
       THEN /\ users' = SavedPath(r, path)
            /\ req' = [req EXCEPT ![p] = ContentReply(r, 200, message)]
       ELSE /\ req' = [req EXCEPT ![p] = ContentReply(r, 500, SaveError(r))]
            /\ UNCHANGED users

\* list.find(item => item.contentId === contentId &&
\*                   item.contentType === contentType)
InWatchlist(list, contentId, contentType) ==
    \E i \in 1..Len(list) : list[i].contentId = contentId /\ list[i].contentType = contentType

\* list.filter(item => item.contentId !== contentId)
WatchlistWithout(list, contentId) == SelectSeq(list, LAMBDA item : item.contentId # contentId)

\* POST /watchlist up to its save
WatchlistAddBegin(p, a, contentId, contentType) ==
    /\ FreeLists(p)
    /\ Authenticated(a)
    /\ LET r == [Arrive(p, "watchAdd") EXCEPT !.uid = a.uid, !.contentId = contentId,
                                              !.contentType = contentType,
                                              !.snap = users[a.uid].watchlist]
       IN IF InWatchlist(users[a.uid].watchlist, contentId, contentType)
          THEN req' = [req EXCEPT ![p] = ContentReply(r, 400, "Item already in watchlist")]
          ELSE req' = [req EXCEPT ![p] =
                          [r EXCEPT !.pc = "save", !.v = users[a.uid].v, !.write = "push",
                                    !.body = <<[contentId |-> contentId,
                                                contentType |-> contentType,
                                                addedAt |-> clock]>>]]
    /\ reqCount' = reqCount + 1
    /\ UNCHANGED <<users, clock, issued, consumed, removed, reviews>>

\* req.user.save() after watchlist.push
WatchlistAddFinish(p) ==
    /\ req[p].op = "watchAdd" /\ req[p].pc = "save"
    /\ SaveAndAnswer(p, "watchlist", "Added to watchlist")
    /\ UNCHANGED <<clock, reqCount, issued, consumed, removed, reviews>>

\* DELETE /watchlist/:contentId up to its save
WatchlistRemoveBegin(p, a, contentId) ==
    /\ FreeLists(p)
    /\ Authenticated(a)
    /\ LET r == [Arrive(p, "watchRemove") EXCEPT !.uid = a.uid, !.contentId = contentId,
                                                 !.snap = users[a.uid].watchlist]
           list == WatchlistWithout(users[a.uid].watchlist, contentId)
       IN req' = [req EXCEPT ![p] = [r EXCEPT !.pc = "save", !.v = users[a.uid].v,
                                              !.list = list,
                                              !.write = IF list = users[a.uid].watchlist
                                                        THEN "none" ELSE "set"]]
    /\ reqCount' = reqCount + 1
    /\ UNCHANGED <<users, clock, issued, consumed, removed, reviews>>

\* req.user.save() after the assignment of the filtered watchlist
WatchlistRemoveFinish(p) ==
    /\ req[p].op = "watchRemove" /\ req[p].pc = "save"
    /\ SaveAndAnswer(p, "watchlist", "Removed from watchlist")
    /\ UNCHANGED <<clock, reqCount, issued, consumed, removed, reviews>>

\* POST /favorites up to its save
FavoritesAddBegin(p, a, contentId, contentType) ==
    /\ FreeLists(p)
    /\ Authenticated(a)
    /\ LET r == [Arrive(p, "favAdd") EXCEPT !.uid = a.uid, !.contentId = contentId,
                                            !.contentType = contentType,
                                            !.snap = users[a.uid].favorites]
       IN IF InWatchlist(users[a.uid].favorites, contentId, contentType)
          THEN req' = [req EXCEPT ![p] = ContentReply(r, 400, "Item already in favorites")]
          ELSE req' = [req EXCEPT ![p] =
                          [r EXCEPT !.pc = "save", !.v = users[a.uid].v, !.write = "push",
                                    !.body = <<[contentId |-> contentId,
                                                contentType |-> contentType,
                                                addedAt |-> clock]>>]]
    /\ reqCount' = reqCount + 1
    /\ UNCHANGED <<users, clock, issued, consumed, removed, reviews>>

\* req.user.save() after favorites.push
FavoritesAddFinish(p) ==
    /\ req[p].op = "favAdd" /\ req[p].pc = "save"
    /\ SaveAndAnswer(p, "favorites", "Added to favorites")
    /\ UNCHANGED <<clock, reqCount, issued, consumed, removed, reviews>>

\* DELETE /favorites/:contentId up to its save
FavoritesRemoveBegin(p, a, contentId) ==
    /\ FreeLists(p)
    /\ Authenticated(a)
    /\ LET r == [Arrive(p, "favRemove") EXCEPT !.uid = a.uid, !.contentId = contentId,
                                               !.snap = users[a.uid].favorites]
           list == WatchlistWithout(users[a.uid].favorites, contentId)
       IN req' = [req EXCEPT ![p] = [r EXCEPT !.pc = "save", !.v = users[a.uid].v,
                                              !.list = list,
                                              !.write = IF list = users[a.uid].favorites
                                                        THEN "none" ELSE "set"]]
    /\ reqCount' = reqCount + 1
    /\ UNCHANGED <<users, clock, issued, consumed, removed, reviews>>

\* req.user.save() after the assignment of the filtered favorites
FavoritesRemoveFinish(p) ==
    /\ req[p].op = "favRemove" /\ req[p].pc = "save"
    /\ SaveAndAnswer(p, "favorites", "Removed from favorites")
    /\ UNCHANGED <<clock, reqCount, issued, consumed, removed, reviews>>

\* req.user.watchHistory.findIndex(item => item.contentId === contentId &&
\*                                         item.contentType === contentType),
\* counted from 1, 0 for none
HistoryIndex(list, contentId, contentType) ==
    IF InWatchlist(list, contentId, contentType)
    THEN CHOOSE i \in 1..Len(list) :
            /\ list[i].contentId = contentId /\ list[i].contentType = contentType
            /\ \A j \in 1..(i - 1) :
                  ~(list[j].contentId = contentId /\ list[j].contentType = contentType)
    ELSE 0

\* POST /history up to its save: the item replaces the one at existingIndex
\* or is pushed
HistoryAddBegin(p, a, contentId, contentType, progress) ==
    /\ FreeLists(p)
    /\ Authenticated(a)
    /\ LET r == [Arrive(p, "historyAdd") EXCEPT !.uid = a.uid, !.contentId = contentId,
                                                !.contentType = contentType,
                                                !.snap = users[a.uid].watchHistory]
           existingIndex == HistoryIndex(users[a.uid].watchHistory, contentId, contentType)
           historyItem == [contentId |-> contentId, contentType |-> contentType,
                           progress |-> progress, lastWatched |-> clock]
       IN IF existingIndex > 0
          THEN req' = [req EXCEPT ![p] =
                          [r EXCEPT !.pc = "save", !.v = users[a.uid].v, !.write = "where",
                                    !.idx = existingIndex, !.body = <<historyItem>>]]
          ELSE req' = [req EXCEPT ![p] =
                          [r EXCEPT !.pc = "save", !.v = users[a.uid].v, !.write = "push",
                                    !.body = <<historyItem>>]]
    /\ reqCount' = reqCount + 1
    /\ UNCHANGED <<users, clock, issued, consumed, removed, reviews>>

\* req.user.save() after the assignment of the element or the push
HistoryAddFinish(p) ==
    /\ req[p].op = "historyAdd" /\ req[p].pc = "save"
    /\ SaveAndAnswer(p, "watchHistory", "Watch history updated")
    /\ UNCHANGED <<clock, reqCount, issued, consumed, removed, reviews>>

\* DELETE /history up to its save: req.user.watchHistory = []
HistoryClearBegin(p, a) ==
    /\ FreeLists(p)
    /\ Authenticated(a)
    /\ LET r == [Arrive(p, "historyClear") EXCEPT !.uid = a.uid,
                                                  !.snap = users[a.uid].watchHistory]
       IN req' = [req EXCEPT ![p] = [r EXCEPT !.pc = "save", !.v = users[a.uid].v,
                                              !.list = <<>>,
                                              !.write = IF users[a.uid].watchHistory = <<>>
                                                        THEN "none" ELSE "set"]]
    /\ reqCount' = reqCount + 1
    /\ UNCHANGED <<users, clock, issued, consumed, removed, reviews>>

\* req.user.save() after the assignment of the empty array
HistoryClearFinish(p) ==
    /\ req[p].op = "historyClear" /\ req[p].pc = "save"
    /\ SaveAndAnswer(p, "watchHistory", "Watch history cleared")
    /\ UNCHANGED <<clock, reqCount, issued, consumed, removed, reviews>>

NextLists ==
    \/ \E p \in Procs : SignupBegin(p, "alice", "a@x.com", "secret1", "Bo", "Lee")
    \/ \E p \in Procs : SignupCreate(p)
    \/ \E p \in Procs : SignupInsert(p)
    \/ \E p \in Procs : SignupTokens(p)
    \/ \E p \in Procs : SignupFinish(p)
    \/ \E p \in Procs : \E t \in issued : RefreshBegin(p, t)
    \/ \E p \in Procs : RefreshFind(p)
    \/ \E p \in Procs : RefreshRotate(p)
    \/ \E p \in Procs : RefreshFinish(p)
    \/ \E p \in Procs : \E a \in AccessInputs, t \in LogoutInputs : LogoutBegin(p, a, t)
    \/ \E p \in Procs : LogoutFinish(p)
    \/ \E p \in Procs : \E a \in AccessInputs, c \in ContentIds, t \in ContentTypes :
          WatchlistAddBegin(p, a, c, t)
    \/ \E p \in Procs : WatchlistAddFinish(p)
    \/ \E p \in Procs : \E a \in AccessInputs, c \in ContentIds : WatchlistRemoveBegin(p, a, c)
    \/ \E p \in Procs : WatchlistRemoveFinish(p)
    \/ \E p \in Procs : \E a \in AccessInputs, c \in ContentIds, t \in ContentTypes :
          FavoritesAddBegin(p, a, c, t)
    \/ \E p \in Procs : FavoritesAddFinish(p)
    \/ \E p \in Procs : \E a \in AccessInputs, c \in ContentIds : FavoritesRemoveBegin(p, a, c)
    \/ \E p \in Procs : FavoritesRemoveFinish(p)
    \/ \E p \in Procs : \E a \in AccessInputs, c \in ContentIds, t \in ContentTypes,
                            n \in Progresses :
          HistoryAddBegin(p, a, c, t, n)
    \/ \E p \in Procs : HistoryAddFinish(p)
    \/ \E p \in Procs : \E a \in AccessInputs : HistoryClearBegin(p, a)
    \/ \E p \in Procs : HistoryClearFinish(p)

SpecLists == Init /\ [][NextLists]_vars

\* ------------------------------------------------------- steps of a request
\* request slot p takes a new request for route op in this step
Arrives(p, op) == req'[p].op = op /\ req'[p].no = reqCount + 1 /\ reqCount' = reqCount + 1

\* the request in slot p is answered in this step, after its save
Completes(p, op) == req[p].op = op /\ req[p].pc = "save" /\ req'[p].pc = "done"

\* the requests in slots p and q were in progress at the same time
Overlap(p, q) ==
    \/ q \in req[p].seen /\ req[q].no < req[p].no
    \/ p \in req[q].seen /\ req[p].no < req[q].no

Outstanding(id) == IF id \in FindById(id) THEN Range(users[id].refreshTokens) ELSE {}

\* ------------------------------------------------------------------- C5
\* C5: every refresh token value returned by signup, login or refresh is a
\* value no earlier response returned, the token a rotation returns is not
\* the token it was called with, and no value is outstanding for two accounts.
C5_IssuedTokensAreFresh ==
    /\ [][\A p \in Procs :
            (req'[p] # req[p] /\ req'[p].resp.tokens # NoTok)
            => /\ req'[p].resp.tokens \notin issued
               /\ req'[p].resp.tokens # req'[p].tok]_vars
    /\ [](\A i, j \in 1..Len(users) : i # j => Outstanding(i) \cap Outstanding(j) = {})

\* ------------------------------------------------------------------- C1
\* C1: a refresh call that arrived with a token an earlier refresh call had
\* succeeded with, and whose token passes verification, is answered 403
\* Invalid refresh token when the route has the account, and gets no pair.
C1_ConsumedTokenIsRefused ==
    [][\A p \in Procs :
          (RefreshRotate(p) /\ req[p].reuse)
          => /\ req'[p].pc = "done"
             /\ req'[p].resp.status = 403
             /\ req'[p].resp.tokens = NoTok]_vars

\* ------------------------------------------------------------------- C3
\* C3: a refresh token that a completed logout or a completed rotation took
\* out of its account's outstanding set is not in that set in any later state.
C3_RemovedTokenStaysOut ==
    \A t \in removed : t \notin Outstanding(t.uid)

\* ------------------------------------------------------------------- C2
\* C2: of two refresh requests in progress at the same time with the same
\* token, both of which read the token in the outstanding set, exactly one
\* is answered with a token pair and the other with 403 Invalid refresh token.
C2_ConcurrentRefreshOneWins ==
    \A p, q \in Procs :
        (/\ p # q
         /\ req[p].op = "refresh" /\ req[p].pc = "done"
         /\ req[q].op = "refresh" /\ req[q].pc = "done"
         /\ req[p].tok = req[q].tok
         /\ Overlap(p, q)
         /\ Some(req[p].snap, req[p].tok) /\ Some(req[q].snap, req[q].tok))
        => \/ req[p].resp.status = 200 /\ req[q].resp.status = 403
           \/ req[p].resp.status = 403 /\ req[q].resp.status = 200

\* ------------------------------------------------------------------- C4
\* the effect of request r on the outstanding list when it runs alone
SerialStep(list, r) ==
    IF r.op = "refresh"
    THEN IF \E i \in 1..Len(list) : list[i] = r.tok
         THEN Append(SelectSeq(list, LAMBDA x : x # r.tok),
                     [typ |-> "refresh", uid |-> r.uid, iat |-> r.clk])
         ELSE list
    ELSE IF r.tok = NoTok THEN <<>> ELSE SelectSeq(list, LAMBDA x : x # r.tok)

\* p arrived with nothing in progress, q arrived next, while p was in
\* progress; both are refresh or logout requests that read account id, both
\* have been answered and no request has arrived since
Batch(p, q, id) ==
    /\ p # q
    /\ req[p].pc = "done" /\ req[q].pc = "done"
    /\ req[p].op \in {"refresh", "logout"} /\ req[q].op \in {"refresh", "logout"}
    /\ req[p].resp.message \notin {"JsonWebTokenError", "TokenExpiredError", "Refresh token required"}
    /\ req[q].resp.message \notin {"JsonWebTokenError", "TokenExpiredError", "Refresh token required"}
    /\ req[p].uid = id /\ req[q].uid = id /\ id \in FindById(id)
    /\ req[p].seen = {} /\ req[q].seen = {p}
    /\ req[q].no = req[p].no + 1 /\ reqCount = req[q].no

\* C4: when concurrent refresh and logout requests on one account have all
\* finished, the outstanding set is the one some serial order of them gives.
C4_FinalSetIsSerial ==
    \A p, q \in Procs : \A id \in Ids :
        Batch(p, q, id)
        => Outstanding(id) \in
             { Range(SerialStep(SerialStep(req[p].snap, req[p]), req[q])),
               Range(SerialStep(SerialStep(req[p].snap, req[q]), req[p])) }

\* ------------------------------------------------------------------- C6
\* C6: a refresh request goes on to read the account only if its token
\* passes signature and expiry verification, goes on to rotate only if the
\* token is in the outstanding set of the account the token names as the
\* route read it, and is answered with a token pair only if the token is
\* still in that set when the rotation is written.
C6_RefreshNeedsOutstandingToken ==
    [][\A p \in Procs :
          /\ (Arrives(p, "refresh") /\ req'[p].pc = "find")
             => /\ req'[p].tok.typ = "refresh"
                /\ clock < req'[p].tok.iat + RefreshExpiresIn
          /\ RefreshFind(p)
             => /\ req'[p].uid = req[p].tok.uid
                /\ req'[p].snap = IF req[p].tok.uid \in FindById(req[p].tok.uid)
                                  THEN users[req[p].tok.uid].refreshTokens ELSE <<>>
          /\ (RefreshRotate(p) /\ req'[p].pc = "save")
             => req[p].tok \in Range(req[p].snap)
          /\ (Completes(p, "refresh") /\ req'[p].resp.tokens # NoTok)
             => /\ req[p].tok.typ = "refresh"
                /\ req[p].tok \in Outstanding(req[p].tok.uid)]_vars

\* a refresh was answered with a pair, and another, with a verified token
\* that is not outstanding, was refused
C6_Witness ==
    \E p, q \in Procs :
        /\ req[p].op = "refresh" /\ req[p].pc = "done" /\ req[p].resp.status = 200
        /\ req[p].resp.tokens # NoTok
        /\ req[q].op = "refresh" /\ req[q].pc = "done" /\ req[q].resp.status = 403
        /\ req[q].tok.typ = "refresh"

\* ------------------------------------------------------------------- C7
\* C7: when a logout without a refresh token is answered 200 the account's
\* outstanding set is empty, and from then on the refresh route accepts no
\* refresh token that was outstanding for the account when the logout read
\* it: the route's check on the stored document refuses each of them.
C7_LogoutAllEmptiesTheSet ==
    /\ [][\A p \in Procs :
            (/\ Completes(p, "logout") /\ req[p].tok = NoTok
             /\ req'[p].resp.status = 200)
            => users'[req[p].uid].refreshTokens = <<>>]_vars
    /\ [](\A q \in Procs :
            (/\ req[q].op = "logout" /\ req[q].pc = "done" /\ req[q].tok = NoTok
             /\ req[q].resp.status = 200)
            => \A t \in Range(req[q].snap) : RefreshRejects(users[req[q].uid], t))

\* ------------------------------------------------------------------- C8
\* C8: a logout with refresh token t on an account with outstanding set S is
\* answered 200 whether t is in S or not and leaves the set equal to S
\* without t: every other token of S is still outstanding (the refresh
\* route's presence check accepts it), and the same logout again would
\* assign the same array.
C8_LogoutRemovesOnlyThatToken ==
    [][\A p \in Procs :
          (/\ req[p].op = "logout" /\ req[p].pc = "save" /\ req'[p].pc = "done"
           /\ req[p].tok # NoTok)
          => /\ req'[p].resp.status = 200
             /\ Range(users'[req[p].uid].refreshTokens)
                  = Range(users[req[p].uid].refreshTokens) \ {req[p].tok}
             /\ \A t \in Range(users[req[p].uid].refreshTokens) \ {req[p].tok} :
                   Some(users'[req[p].uid].refreshTokens, t)
             /\ SelectSeq(users'[req[p].uid].refreshTokens, LAMBDA x : x # req[p].tok)
                  = users'[req[p].uid].refreshTokens]_vars

\* ------------------------------------------------------------------- C9
\* C9: no login and no refresh is answered with a token pair for an account
\* whose active flag was false when the route read the account and is false
\* when the route answers.
C9_InactiveAccountGetsNoTokens ==
    [][\A p \in Procs : \A op \in {"login", "refresh"} :
          (Completes(p, op) /\ req'[p].resp.tokens # NoTok)
          => req[p].doc.isActive \/ users[req[p].uid].isActive]_vars

\* ------------------------------------------------------------------ C10
\* C10: a login that read an account whose active flag is false is answered
\* 401 Account deactivated when the password matches the stored hash and 401
\* Invalid credentials when it does not; it gets no token, and neither its
\* read nor its answer changes the collection.
C10_DeactivatedLogin ==
    [][\A p \in Procs :
          /\ Arrives(p, "login") => users' = users
          /\ (LoginCompare(p) /\ ~req[p].doc.isActive)
             => /\ req'[p].pc = "done"
                /\ req'[p].resp.status = 401
                /\ req'[p].resp.message =
                     IF req[p].doc.password = Hash(req[p].password)
                     THEN "Account deactivated" ELSE "Invalid credentials"
                /\ req'[p].resp.tokens = NoTok
                /\ users' = users]_vars

\* a login with the right password has been refused as deactivated, on an
\* account whose flag is false
C10_Witness ==
    \E p \in Procs :
        /\ req[p].op = "login" /\ req[p].pc = "done"
        /\ req[p].resp.status = 401
        /\ req[p].resp.message = "Account deactivated"
        /\ req[p].uid \in FindById(req[p].uid)
        /\ ~users[req[p].uid].isActive

\* ------------------------------------------------------------------ C11
\* C11: a login with an e-mail no account has and a login with the e-mail of
\* an account and a password that is not that account's are answered with
\* the same response, 401 Invalid credentials without tokens or user, and
\* neither changes any account.
C11_UnknownAndWrongPasswordAlike ==
    [][\A p \in Procs :
          /\ \A e \in Emails, pw \in Passwords :
                LoginBegin(p, e, pw)
                => /\ users' = users
                   /\ (\A i \in 1..Len(users) : users[i].email # Lower(e))
                      => /\ req'[p].pc = "done"
                         /\ req'[p].resp = [NoResp EXCEPT !.status = 401,
                                                          !.message = "Invalid credentials"]
          /\ (LoginCompare(p) /\ req[p].doc.password # "$2a$" \o req[p].password)
             => /\ req'[p].pc = "done"
                /\ req'[p].resp = [NoResp EXCEPT !.status = 401,
                                                 !.message = "Invalid credentials"]
                /\ users' = users]_vars

\* both logins have been answered: one for an e-mail without account, one
\* for an active account with the wrong password
C11_Witness ==
    \E p, q \in Procs :
        /\ req[p].op = "login" /\ req[p].pc = "done" /\ req[p].uid = 0
        /\ req[q].op = "login" /\ req[q].pc = "done" /\ req[q].uid # 0
        /\ users[req[q].uid].isActive
        /\ req[p].resp = req[q].resp
        /\ req[p].resp.status = 401

\* ------------------------------------------------------------------ C12
\* C12: a refresh call with a token that fails verification (malformed,
\* wrongly signed or expired) and a refresh call with a verifiable token that
\* is not in its account's outstanding set (removed by logout, consumed by a
\* rotation) get the same answer, 403 Invalid refresh token without tokens,
\* and change no account's outstanding set.
C12_RefusedRefreshesAlike ==
    [][\A p \in Procs :
          /\ (/\ Arrives(p, "refresh") /\ req'[p].tok # NoTok
              /\ \/ req'[p].tok.typ # "refresh"
                 \/ clock >= req'[p].tok.iat + RefreshExpiresIn)
             => /\ req'[p].pc = "done"
                /\ req'[p].resp = [NoResp EXCEPT !.status = 403,
                                                 !.message = "Invalid refresh token"]
                /\ users' = users
          /\ (RefreshRotate(p) /\ req[p].tok \notin Range(req[p].snap))
             => /\ req'[p].pc = "done"
                /\ req'[p].resp = [NoResp EXCEPT !.status = 403,
                                                 !.message = "Invalid refresh token"]
                /\ users' = users]_vars

\* ------------------------------------------------------------------ C13
\* C13: a signup whose username is an account's username, or whose e-mail
\* equals an account's e-mail up to letter case, is answered 400 with one of
\* the two duplicate messages, without tokens and without user; it inserts
\* no account and is over with that answer.
C13_DuplicateIdentityRefused ==
    [][\A p \in Procs :
          (reqCount' # reqCount /\ req'[p].op = "signup")
          => \A u \in Usernames, e \in Emails, pw \in Passwords,
                n \in FirstNames, l \in LastNames :
                (/\ SignupBegin(p, u, e, pw, n, l)
                 /\ \E i \in 1..Len(users) :
                       /\ users[i] # NoDoc
                       /\ users[i].username = u \/ Lower(users[i].email) = Lower(e))
                => /\ req'[p].pc = "done"
                   /\ req'[p].resp.status = 400
                   /\ req'[p].resp.message \in {"Email already registered",
                                                "Username already taken"}
                   /\ req'[p].resp.tokens = NoTok /\ req'[p].resp.users = <<>>
                   /\ users' = users
                   /\ issued' = issued]_vars

\* a signup has been refused with 400 while the one account is untouched
C13_Witness ==
    \E p \in Procs :
        /\ req[p].op = "signup" /\ req[p].pc = "done" /\ req[p].resp.status = 400
        /\ Len(users) = 1 /\ Len(users[1].refreshTokens) = 1

\* ------------------------------------------------------------------ C14
\* C14: in every reachable state, whatever signups ran at the same time, no
\* two accounts have the same username and no two accounts have e-mails that
\* are equal up to letter case.
C14_IdentitiesUnique ==
    \A i, j \in 1..Len(users) :
        (i # j /\ users[i] # NoDoc /\ users[j] # NoDoc)
        => /\ users[i].username # users[j].username
           /\ Lower(users[i].email) # Lower(users[j].email)

\* two signups passed the route's findOne together and the store refused
\* the second insert
C14_Witness ==
    \E p \in Procs :
        /\ req[p].op = "signup" /\ req[p].pc = "done"
        /\ req[p].resp.message = "E11000 duplicate key"
        /\ Len(users) = 1

\* ------------------------------------------------------------------ C15
\* C15: the message of a refused signup is "Email already registered" when
\* the supplied e-mail equals an account's e-mail up to letter case, and
\* "Username already taken" only when no account has that e-mail and an
\* account has the username.
C15_MessageNamesCollidingField ==
    [][\A p \in Procs, u \in Usernames, e \in Emails, pw \in Passwords,
          n \in FirstNames, l \in LastNames :
          (SignupBegin(p, u, e, pw, n, l) /\ req'[p].resp.status = 400)
          => req'[p].resp.message =
                IF \E i \in 1..Len(users) :
                      users[i] # NoDoc /\ Lower(users[i].email) = Lower(e)
                THEN "Email already registered"
                ELSE "Username already taken"]_vars

\* ------------------------------------------------------------------ C16
\* C16, as claimed: a signup that is answered 201 has inserted exactly one
\* account, in its first save and in no other step of its own; the stored
\* password is the hash of the supplied password, hashed once, after the
\* first save and after the second; and after the second save the account's
\* outstanding set is exactly the one refresh token the answer carries.
C16_SetIsTheReturnedToken ==
    [][\A p \in Procs :
          /\ Arrives(p, "signup") => users' = users
          /\ (req[p].op = "signup" /\ req[p].pc = "insert" /\ req'[p].pc = "tokens")
             => /\ Len(users') = Len(users) + 1
                /\ \A i \in 1..Len(users) : users'[i] = users[i]
                /\ req'[p].uid = Len(users')
                /\ users'[req'[p].uid].password = "$2a$" \o req[p].password
                /\ users'[req'[p].uid].password # req[p].password
                /\ users'[req'[p].uid].refreshTokens = <<>>
          /\ SignupCreate(p) => users' = users
          /\ SignupTokens(p) => users' = users
          /\ (Completes(p, "signup") /\ req'[p].resp.status = 201)
             => /\ Len(users') = Len(users)
                /\ users'[req[p].uid].password = "$2a$" \o req[p].password
                /\ req'[p].resp.tokens # NoTok
                /\ users'[req[p].uid].refreshTokens = <<req'[p].resp.tokens>>]_vars

\* C16, amended: as above, but the second save appends the refresh token of
\* the answer to the account's outstanding set as the store holds it: the
\* set is exactly that token when no other request has written the new
\* account between the two saves, and otherwise holds, before it, what
\* those requests left there.
C16_SignupCreatesOneAccount ==
    [][\A p \in Procs :
          /\ Arrives(p, "signup") => users' = users
          /\ (req[p].op = "signup" /\ req[p].pc = "insert" /\ req'[p].pc = "tokens")
             => /\ Len(users') = Len(users) + 1
                /\ \A i \in 1..Len(users) : users'[i] = users[i]
                /\ req'[p].uid = Len(users')
                /\ users'[req'[p].uid].password = "$2a$" \o req[p].password
                /\ users'[req'[p].uid].password # req[p].password
                /\ users'[req'[p].uid].refreshTokens = <<>>
          /\ SignupCreate(p) => users' = users
          /\ SignupTokens(p) => users' = users
          /\ (Completes(p, "signup") /\ req'[p].resp.status = 201)
             => /\ Len(users') = Len(users)
                /\ users'[req[p].uid].password = "$2a$" \o req[p].password
                /\ req'[p].resp.tokens # NoTok
                /\ users'[req[p].uid].refreshTokens
                     = Append(users[req[p].uid].refreshTokens, req'[p].resp.tokens)
                /\ users[req[p].uid].v = 0
                   => users'[req[p].uid].refreshTokens = <<req'[p].resp.tokens>>]_vars

\* a signup has been answered 201 and its account holds the hash and the
\* one token of the answer
C16_Witness ==
    \E p \in Procs :
        /\ req[p].op = "signup" /\ req[p].pc = "done" /\ req[p].resp.status = 201
        /\ users[req[p].uid].refreshTokens = <<req[p].resp.tokens>>
        /\ \E pw \in Passwords : users[req[p].uid].password = "$2a$" \o pw

\* ------------------------------------------------------------------ C17
\* C17: a login with the e-mail, in any letter case, and the password of an
\* active account succeeds at any point after the signup: the account and
\* its credentials stay in the store in every step, such a login finds the
\* account and goes on to its save, it is answered 200 with the pair it generated, and its save
\* appends that refresh token to the account's array as it is in the store
\* at that moment, so that every token in the array before is in it after,
\* and nothing else in the collection changes.
C17_LoginKeepsOutstandingTokens ==
    [][/\ \A i \in 1..Len(users) :
             users[i] # NoDoc
             => /\ users'[i] # NoDoc
                /\ users'[i].email = users[i].email
                /\ users'[i].password = users[i].password
       /\ \A p \in Procs :
             /\ \A e \in Emails, pw \in Passwords :
                   (/\ LoginBegin(p, e, pw)
                    /\ \E i \in 1..Len(users) : users[i].email = Lower(e))
                   => /\ req'[p].pc = "compare"
                      /\ users[req'[p].uid].email = Lower(e)
                      /\ users' = users
             /\ (/\ LoginCompare(p)
                 /\ req[p].doc.password = "$2a$" \o req[p].password
                 /\ req[p].doc.isActive)
                => /\ req'[p].pc = "save"
                   /\ req'[p].newTok # NoTok
                   /\ users' = users
             /\ Completes(p, "login")
                => /\ req'[p].resp.status = 200
                   /\ req'[p].resp.tokens = req[p].newTok
                   /\ users'[req[p].uid].refreshTokens
                         = users[req[p].uid].refreshTokens \o <<req'[p].resp.tokens>>
                   /\ \A i \in 1..Len(users) : i # req[p].uid => users'[i] = users[i]
                   /\ Len(users') = Len(users)]_vars

\* ------------------------------------------------------------------ C18
\* C18: a refresh call with a refresh token created TokenTtl (7 days) or
\* more ago gets no pair, also when the token is still in its account's
\* array; and the expiry of a token takes nothing but that token away: the
\* account stays in the store with its identity, credentials and active
\* flag, and every token of the account that has not reached that age
\* stays in the array.
C18_ExpiryTouchesOnlyThatToken ==
    [][/\ \A p \in Procs :
             (/\ Arrives(p, "refresh") /\ req'[p].tok.typ = "refresh"
              /\ clock >= req'[p].tok.iat + TokenTtl)
             => req'[p].pc = "done" /\ req'[p].resp.tokens = NoTok
       /\ \A id \in Ids :
             TtlExpire(id)
             => /\ users'[id] # NoDoc
                /\ users'[id].username = users[id].username
                /\ users'[id].email = users[id].email
                /\ users'[id].password = users[id].password
                /\ users'[id].isActive = users[id].isActive
                /\ \A i \in 1..Len(users[id].refreshTokens) :
                      clock < users[id].refreshTokens[i].iat + TokenTtl
                      => Some(users'[id].refreshTokens, users[id].refreshTokens[i])]_vars

\* ------------------------------------------------------------------ C19
\* C19: no answer of signup, login, profile read, profile update or of the
\* admin user endpoints carries an account's password hash or its
\* refreshTokens array: every user object in an answer lacks both paths;
\* and a refresh token in an answer is the one this request generated for
\* the account it acted on, which only signup, login and refresh-token do.
C19_ResponsesHideCredentials ==
    \A p \in Procs :
        req[p].pc = "done"
        => /\ \A i \in 1..Len(req[p].resp.users) :
                 /\ "password" \notin DOMAIN req[p].resp.users[i]
                 /\ "refreshTokens" \notin DOMAIN req[p].resp.users[i]
                 /\ "username" \in DOMAIN req[p].resp.users[i]
           /\ req[p].resp.tokens # NoTok
              => /\ req[p].op \in {"signup", "login", "refresh"}
                 /\ req[p].resp.tokens = [typ |-> "refresh", uid |-> req[p].uid, iat |-> req[p].clk]

\* a login and an admin listing have been answered with user objects of an
\* account that has a password hash and outstanding tokens
C19_Witness ==
    \E p, q \in Procs :
        /\ req[p].op = "login" /\ req[p].pc = "done" /\ req[p].resp.users # <<>>
        /\ req[q].op = "users" /\ req[q].pc = "done" /\ req[q].resp.users # <<>>
        /\ users[req[p].uid].refreshTokens # <<>>
        /\ users[req[p].uid].password # ""

\* ------------------------------------------------------------------ C20
\* C20: a logout acts on the account its access token names, with or
\* without a refresh token in the body and also when that token belongs to
\* another account: neither its arrival nor its save changes the document,
\* and so the outstanding set, of any other account.
C20_LogoutLeavesOtherAccounts ==
    [][\A p \in Procs :
          /\ \A a \in AccessInputs, t \in LogoutInputs :
                LogoutBegin(p, a, t) => req'[p].uid = a.uid /\ users' = users
          /\ Completes(p, "logout")
             => /\ Len(users') = Len(users)
                /\ \A id \in 1..Len(users) : id # req[p].uid => users'[id] = users[id]]_vars

\* a logout by one account with a refresh token of another account has been
\* answered 200, and the other account still has that token outstanding
C20_Witness ==
    \E p \in Procs :
        /\ req[p].op = "logout" /\ req[p].pc = "done" /\ req[p].resp.status = 200
        /\ req[p].tok # NoTok /\ req[p].tok.uid # req[p].uid
        /\ req[p].tok \in Outstanding(req[p].tok.uid)

\* ------------------------------------------------------------------ C21
\* C21: in every reachable state no two reviews have the same user,
\* contentId and contentType, also when two create requests of one user for
\* one content run at the same time; and a create request for a triple that
\* has a review is answered 400 and adds nothing.
C21_OneReviewPerUserAndContent ==
    /\ [](\A i, j \in 1..Len(reviews) :
             (i # j /\ reviews[i] # NoReview /\ reviews[j] # NoReview)
             => \/ reviews[i].userId # reviews[j].userId
                \/ reviews[i].contentId # reviews[j].contentId
                \/ reviews[i].contentType # reviews[j].contentType)
    /\ [][\A p \in Procs, a \in AccessInputs, c \in ContentIds, t \in ContentTypes, n \in Ratings :
             (/\ ReviewCreateBegin(p, a, c, t, n)
              /\ \E i \in 1..Len(reviews) :
                    /\ reviews[i].userId = a.uid
                    /\ reviews[i].contentId = c /\ reviews[i].contentType = t)
             => /\ req'[p].pc = "done" /\ req'[p].resp.status = 400
                /\ reviews' = reviews]_vars

\* ------------------------------------------------------------------ C22
\* C22: an update request by an account that is not the review's author,
\* and a delete request by an account that is not the author and did not
\* have role admin when it was authenticated, are answered 403 and write
\* nothing; and whenever a review changes, the step is the save of an update
\* request of its author for that review, and whenever a review is removed,
\* the step is the delete of a request for that review by its author or by
\* an account that had role admin when the request was authenticated.
C22_OnlyAuthorOrAdmin ==
    [][/\ \A p \in Procs :
             /\ (reqCount' # reqCount /\ req'[p].op = "reviewUpdate")
                => \A a \in AccessInputs, id \in ReviewIds, n \in Ratings :
                      (/\ ReviewUpdateBegin(p, a, id, n)
                       /\ id <= Len(reviews) /\ reviews[id] # NoReview
                       /\ reviews[id].userId # a.uid)
                      => /\ req'[p].pc = "done" /\ req'[p].resp.status = 403
                         /\ reviews' = reviews
             /\ (reqCount' # reqCount /\ req'[p].op = "reviewDelete")
                => \A a \in AccessInputs, id \in ReviewIds :
                      ReviewDeleteBegin(p, a, id)
                      => req'[p].role = users[a.uid].role /\ reviews' = reviews
             /\ (/\ ReviewDeleteFind(p)
                 /\ req[p].rid <= Len(reviews) /\ reviews[req[p].rid] # NoReview
                 /\ reviews[req[p].rid].userId # req[p].uid /\ req[p].role # "admin")
                => /\ req'[p].pc = "done" /\ req'[p].resp.status = 403
                   /\ reviews' = reviews
       /\ \A id \in 1..Len(reviews) :
             (reviews[id] # NoReview /\ reviews'[id] # reviews[id])
             => \E p \in Procs :
                   /\ req[p].pc = "save" /\ req'[p].pc \in {"populate", "done"}
                   /\ req[p].rid = id
                   /\ \/ /\ req[p].op = "reviewUpdate"
                         /\ req[p].uid = reviews[id].userId
                         /\ reviews'[id] # NoReview
                         /\ reviews'[id].userId = reviews[id].userId
                      \/ /\ req[p].op = "reviewDelete"
                         /\ req[p].uid = reviews[id].userId \/ req[p].role = "admin"
                         /\ reviews'[id] = NoReview]_vars

\* an account that is not the author of a review has asked to update or
\* delete it and has been refused with 403, and the review is in the store
C22_Witness ==
    \E p \in Procs :
        /\ req[p].pc = "done" /\ req[p].resp.status = 403
        /\ req[p].op \in {"reviewUpdate", "reviewDelete"}
        /\ reviews[req[p].rid] # NoReview
        /\ reviews[req[p].rid].userId # req[p].uid

\* ------------------------------------------------------------------ C23
\* C23: in every reachable state, whatever add and remove requests ran and
\* also when add requests for one item ran at the same time, no account's
\* watchlist has two entries with the same contentId and contentType; and
\* an add request for a pair that is in the list is answered 400 and
\* leaves the list unchanged.
C23_WatchlistHasNoDuplicates ==
    /\ [](\A id \in 1..Len(users) :
             \A i, j \in 1..Len(users[id].watchlist) :
                i # j => \/ users[id].watchlist[i].contentId # users[id].watchlist[j].contentId
                         \/ users[id].watchlist[i].contentType
                               # users[id].watchlist[j].contentType)
    /\ [][\A p \in Procs, a \in AccessInputs, c \in ContentIds, t \in ContentTypes :
             (/\ WatchlistAddBegin(p, a, c, t)
              /\ \E i \in 1..Len(users[a.uid].watchlist) :
                    /\ users[a.uid].watchlist[i].contentId = c
                    /\ users[a.uid].watchlist[i].contentType = t)
             => /\ req'[p].pc = "done" /\ req'[p].resp.status = 400
                /\ users' = users]_vars

====
